---- MODULE Spec2Model ----
(***************************************************************************)
(* Model of generate_image.py, the OpenAI Images API helper.               *)
(*                                                                         *)
(* One invocation of main() is a run through the program positions held in *)
(* pc.  The model starts where p.parse_args() has returned (line 82): the  *)
(* command line is well formed, args.verbose is either value, and the      *)
(* other arguments keep their defaults.  Everything the environment        *)
(* decides (the provider's answer, what a download returns, whether the    *)
(* disk accepts a write) is held in `world`, is decided the first time the *)
(* program asks for it, and stays decided: a second invocation in the same *)
(* environment with --verbose flipped (Reinvoke) sees the same answers.    *)
(*                                                                         *)
(* An exception that main() does not catch leaves through                  *)
(* `raise SystemExit(main())`: the interpreter prints a traceback on the   *)
(* error stream and the process ends with status 1.                        *)
(***************************************************************************)
EXTENDS Integers, Sequences, FiniteSets, TLC

\* ------------------------------------------------------------------ bounds

\* Longest "data" list the provider answers with.
MaxItems == 2
\* Longest API key of the key-masking specification.
MaxKeyLen == 10

\* ------------------------------------------------------------ plain values

Min(a, b) == IF a < b THEN a ELSE b

Prefix(s, n) == SubSeq(s, 1, Min(n, Len(s)))

SeqsUpTo(S, n) == UNION {[1..k -> S] : k \in 0..n}

\* ------------------------------------------------------------------ base64

\* The standard alphabet: a character's value is its position minus one.
B64Alphabet ==
  << "A","B","C","D","E","F","G","H","I","J","K","L","M","N","O","P",
     "Q","R","S","T","U","V","W","X","Y","Z","a","b","c","d","e","f",
     "g","h","i","j","k","l","m","n","o","p","q","r","s","t","u","v",
     "w","x","y","z","0","1","2","3","4","5","6","7","8","9","+","/" >>

\* binascii's table_a2b_base64: 64 and above is "not a data character".
B64Value(c) ==
  IF \E n \in 1..Len(B64Alphabet) : B64Alphabet[n] = c
  THEN (CHOOSE n \in 1..Len(B64Alphabet) : B64Alphabet[n] = c) - 1
  ELSE 64

\* base64.b64decode(b64) with validate=False, as binascii.a2b_base64 runs it:
\* characters outside the alphabet are skipped, a pad that completes a quad
\* ends the parse, and data that stops inside a quad raises binascii.Error.
\* The result is [ok, bytes]; ok = FALSE stands for the raised exception.
RECURSIVE a2b_base64(_, _, _, _, _, _)
a2b_base64(s, k, quad_pos, leftchar, pads, out) ==
  IF k > Len(s)
  THEN [ok |-> quad_pos = 0, bytes |-> IF quad_pos = 0 THEN out ELSE << >>]
  ELSE IF s[k] = "="
  THEN IF quad_pos >= 2 /\ quad_pos + pads + 1 >= 4
       THEN [ok |-> TRUE, bytes |-> out]
       ELSE a2b_base64(s, k + 1, quad_pos, leftchar,
                       IF quad_pos >= 2 THEN pads + 1 ELSE pads, out)
  ELSE LET v == B64Value(s[k]) IN
       IF v >= 64
       THEN a2b_base64(s, k + 1, quad_pos, leftchar, pads, out)
       ELSE CASE quad_pos = 0 ->
                   a2b_base64(s, k + 1, 1, v, 0, out)
              [] quad_pos = 1 ->
                   a2b_base64(s, k + 1, 2, v % 16, 0,
                              Append(out, leftchar * 4 + v \div 16))
              [] quad_pos = 2 ->
                   a2b_base64(s, k + 1, 3, v % 4, 0,
                              Append(out, leftchar * 16 + v \div 4))
              [] OTHER ->
                   a2b_base64(s, k + 1, 0, 0, 0,
                              Append(out, leftchar * 64 + v))

b64decode(b64) == a2b_base64(b64, 1, 0, 0, 0, << >>)

\* ------------------------------------------------------------ _mask_key

\* k[:n] and k[-n:] of a Python string.
Head_(k, n) == SubSeq(k, 1, Min(n, Len(k)))
Tail_(k, n) == SubSeq(k, Len(k) - Min(n, Len(k)) + 1, Len(k))

Stars == << "*", "*", "*", "*" >>

_mask_key(k) ==
  IF Len(k) <= 8 THEN Stars ELSE Head_(k, 2) \o Stars \o Tail_(k, 4)

\* ------------------------------------------------------------------- _env

\* An environment variable is unset or holds a string (a sequence of
\* characters).  None is the unset value.
None == [set |-> FALSE, value |-> << >>]
Str(chars) == [set |-> TRUE, value |-> chars]

\* os.getenv(name), with a default of None, "" counted as missing.
_env(v, default) == IF v.set /\ v.value # << >> THEN v ELSE default

\* Python's `not x` for an Optional[str].
Not_(x) == ~x.set \/ x.value = << >>

\* ------------------------------------------------- the provider's response

\* b64_json payloads: a full quad followed by a padded one (the bytes
\* 89 50 4E 89), and one whose data stops inside a quad (b64decode raises).
Payloads ==
  { << "i", "V", "B", "O", "i", "Q", "=", "=" >>, << "i", "V", "B" >> }

Urls == { "https://img/1", "https://img/2" }

NoPayload == << >>
NoUrl == ""

\* An item of "data": a JSON object with some of the keys b64_json and url
\* (other keys play no part), or a JSON value that is no object.
ObjectItems ==
  { [kind |-> "object", keys |-> ks,
     b64_json |-> p, url |-> u] :
       ks \in SUBSET {"b64_json", "url"}, p \in Payloads \cup {NoPayload},
       u \in Urls \cup {NoUrl} }

Items ==
  { it \in ObjectItems :
      /\ ("b64_json" \in it.keys) <=> (it.b64_json # NoPayload)
      /\ ("url" \in it.keys) <=> (it.url # NoUrl) }
  \cup { [kind |-> "number", keys |-> {}, b64_json |-> NoPayload, url |-> NoUrl] }

\* What json.loads(body) can be: a JSON object, with or without "data" and
\* with "data" a list or not; a JSON array; any other JSON value.
DataValues ==
  { [kind |-> "missing", items |-> << >>], [kind |-> "notlist", items |-> << >>] }
  \cup { [kind |-> "list", items |-> l] : l \in SeqsUpTo(Items, MaxItems) }

NoData == [kind |-> "missing", items |-> << >>]

Responses ==
  { [form |-> "object", data |-> d] : d \in DataValues }
  \cup { [form |-> "array", data |-> NoData], [form |-> "scalar", data |-> NoData] }

NoResponse == [form |-> "none", data |-> NoData]

\* --------------------------------------------------------- the environment

\* _http_json returns the parsed body or raises (transport error, HTTP
\* error status, body that is not JSON).
PostOutcomes ==
  { [res |-> "ok", resp |-> r] : r \in Responses }
  \cup { [res |-> "raises", resp |-> NoResponse] }

\* What resp.read() of a download returns, or "raises".
Bodies == { "bodyA", "bodyB" }
FetchOutcomes == Bodies \cup { "raises" }
BodyBytes(b) == IF b = "bodyA" THEN << 137, 80 >> ELSE << 255 >>

\* open(out_path, "wb") raises and leaves no file; or f.write raises and
\* leaves the file empty or short of its last byte; or both succeed.
WriteOutcomes == { "ok", "open_raises", "write_raises_empty", "write_raises_short" }

\* The file's bytes after `with open(out_path, "wb") as f: f.write(data)`
\* ended as w says.
Written(data, w) ==
  CASE w = "ok" -> data
    [] w = "write_raises_short" -> Prefix(data, Len(data) - 1)
    [] OTHER -> << >>

MkdirOutcomes == { "ok", "raises" }

\* _utc_stamp() values.
Stamps == { "20260127-101500", "20260127-101501" }

Unknown == "unknown"
UnknownPost == [res |-> Unknown, resp |-> NoResponse]

\* ------------------------------------------------------------------- state

OutDir == "."
OutPrefix == "generated"

\* A faulty variant of OutPath: the position index is left out of the name,
\* so every item of a batch gets the first item's path.
OutPath_no_index(stamp, i) ==
  [dir |-> OutDir, prefix |-> OutPrefix, stamp |-> stamp, index |-> 1, ext |-> "png"]

\* os.path.join(args.out_dir, f"{args.out_prefix}-{stamp}-{i}.png")
OutPath(stamp, i) ==
  [dir |-> OutDir, prefix |-> OutPrefix, stamp |-> stamp, index |-> i, ext |-> "png"]

NoPath == [dir |-> "", prefix |-> "", stamp |-> "", index |-> 0, ext |-> ""]

\* A printed line: what it is, and the text or path it carries.
Line(kind, text, path) == [kind |-> kind, text |-> text, path |-> path]

VARIABLES
  env_key,     \* os.environ's OPENAI_API_KEY
  verbose,     \* args.verbose
  pc,          \* position in main()
  api_key,     \* main's api_key
  resp,        \* main's resp
  stamp,       \* main's stamp
  i,           \* the loop's position index
  saved,       \* main's saved
  dir_made,    \* whether os.makedirs has created args.out_dir
  files,       \* the disk: a set of [path, bytes], one per path
  stdout,      \* lines printed to standard output
  stderr,      \* lines printed to the error stream
  exit_code,   \* the process's exit status, -1 while running
  net,         \* the network calls issued, in order
  world,       \* what the environment has decided so far
  earlier      \* the outcome of the invocation before this one, if any

vars == << env_key, verbose, pc, api_key, resp, stamp, i, saved, dir_made,
           files, stdout, stderr, exit_code, net, world, earlier >>

\* ------------------------------------------------------------ initial state

\* OPENAI_API_KEY of the main specification: unset, empty, or a key.
EnvKeys ==
  { None, Str(<< >>), Str(<< "s", "k", "-", "p", "r", "o", "j", "-", "1", "2" >>) }

Positions == 1..MaxItems

NothingDecided ==
  [post  |-> UnknownPost,
   mkdir |-> Unknown,
   clock |-> Unknown,
   fetch |-> [n \in Positions |-> Unknown],
   write |-> [n \in Positions |-> Unknown]]

NoEarlier ==
  [ran |-> FALSE, verbose |-> FALSE, exit_code |-> -1, net |-> << >>, files |-> {}]

\* The state in which main() starts, whatever the environment holds.
Fresh ==
  /\ pc = "credential"
  /\ api_key = None
  /\ resp = NoResponse
  /\ stamp = ""
  /\ i = 0
  /\ saved = << >>
  /\ dir_made = FALSE
  /\ files = {}
  /\ stdout = << >>
  /\ stderr = << >>
  /\ exit_code = -1
  /\ net = << >>

Init ==
  /\ env_key \in EnvKeys
  /\ verbose \in BOOLEAN
  /\ world = NothingDecided
  /\ earlier = NoEarlier
  /\ Fresh

\* ------------------------------------------------------------ ways to leave

\* `return code` after print(msg, file=sys.stderr).
Return(code, msg) ==
  /\ stderr' = Append(stderr, msg)
  /\ exit_code' = code
  /\ pc' = "exited"

\* An exception nothing catches: traceback on the error stream, status 1.
Raise ==
  /\ stderr' = Append(stderr, "Traceback (most recent call last):")
  /\ exit_code' = 1
  /\ pc' = "exited"

\* ----------------------------------------------------------------- main()

\* A faulty variant of CheckCredential: os.getenv read directly and tested
\* against None only, so an empty OPENAI_API_KEY passes.
CheckCredential_unset_only ==
  /\ pc = "credential"
  /\ api_key' = env_key
  /\ IF ~env_key.set
     THEN Return(2, "ERROR: OPENAI_API_KEY is not set.")
     ELSE pc' = "announce" /\ UNCHANGED << stderr, exit_code >>
  /\ UNCHANGED << env_key, verbose, resp, stamp, i, saved, dir_made, files,
                  stdout, net, world, earlier >>

\* Lines 84-87.
CheckCredential ==
  /\ pc = "credential"
  /\ api_key' = _env(env_key, None)
  /\ IF Not_(api_key')
     THEN Return(2, "ERROR: OPENAI_API_KEY is not set.")
     ELSE pc' = "announce" /\ UNCHANGED << stderr, exit_code >>
  /\ UNCHANGED << env_key, verbose, resp, stamp, i, saved, dir_made, files,
                  stdout, net, world, earlier >>

Endpoint == "https://api.openai.com/v1/images"

\* Lines 89-114: the endpoint and the payload are built (no effect outside
\* main), and --verbose prints them with the masked key.
Announce ==
  /\ pc = "announce"
  /\ stdout' = IF verbose
               THEN stdout \o << Line("Using endpoint", << >>, NoPath),
                                 Line("Using API key", _mask_key(api_key.value), NoPath),
                                 Line("Payload", << >>, NoPath) >>
               ELSE stdout
  /\ pc' = "request"
  /\ UNCHANGED << env_key, verbose, api_key, resp, stamp, i, saved, dir_made,
                  files, stderr, exit_code, net, world, earlier >>

\* A network call: the generation request (item 0) or the download for an
\* item, with the number of items saved when it was issued and what came
\* back.
Call(method, url, item, got) ==
  [method |-> method, url |-> url, item |-> item, after |-> Len(saved), got |-> got]

\* Lines 116-120: the one call of _http_json (lines 40-52).
Request ==
  /\ pc = "request"
  /\ \E o \in PostOutcomes :
       /\ world.post \in { UnknownPost, o }
       /\ world' = [world EXCEPT !.post = o]
       /\ net' = Append(net, Call("POST", Endpoint, 0, o.res))
       /\ IF o.res = "raises"
          THEN Return(3, "ERROR calling Images API") /\ UNCHANGED resp
          ELSE /\ resp' = o.resp
               /\ pc' = "metadata"
               /\ UNCHANGED << stderr, exit_code >>
  /\ UNCHANGED << env_key, verbose, api_key, stamp, i, saved, dir_made, files,
                  stdout, earlier >>

\* dict(resp) raises for a JSON value that is neither an object nor an empty
\* array; d.keys() raises for an item that is no object.
MetadataRaises(r) ==
  \/ r.form = "scalar"
  \/ /\ r.form = "object"
     /\ r.data.kind = "list"
     /\ \E n \in 1..Len(r.data.items) : r.data.items[n].kind # "object"

\* Lines 122-128.
Metadata ==
  /\ pc = "metadata"
  /\ IF ~verbose
     THEN pc' = "validate" /\ UNCHANGED << stdout, stderr, exit_code >>
     ELSE IF MetadataRaises(resp)
     THEN Raise /\ UNCHANGED stdout
     ELSE /\ stdout' = Append(stdout, Line("Response metadata", << >>, NoPath))
          /\ pc' = "validate"
          /\ UNCHANGED << stderr, exit_code >>
  /\ UNCHANGED << env_key, verbose, api_key, resp, stamp, i, saved, dir_made,
                  files, net, world, earlier >>

\* Lines 130-133: resp.get raises for a JSON value that is no object; a
\* missing "data" defaults to [].
Validate ==
  /\ pc = "validate"
  /\ IF resp.form # "object"
     THEN Raise
     ELSE IF resp.data.kind # "list" \/ Len(resp.data.items) = 0
     THEN Return(4, "ERROR: No images returned.")
     ELSE pc' = "prepare" /\ UNCHANGED << stderr, exit_code >>
  /\ UNCHANGED << env_key, verbose, api_key, resp, stamp, i, saved, dir_made,
                  files, stdout, net, world, earlier >>

\* Lines 135-137 and the loop's start.
Prepare ==
  /\ pc = "prepare"
  /\ \E m \in MkdirOutcomes :
       /\ world.mkdir \in { Unknown, m }
       /\ IF m = "raises"
          THEN /\ Raise
               /\ world' = [world EXCEPT !.mkdir = m]
               /\ UNCHANGED << dir_made, stamp, saved, i >>
          ELSE \E t \in Stamps :
                 /\ world.clock \in { Unknown, t }
                 /\ world' = [world EXCEPT !.mkdir = m, !.clock = t]
                 /\ dir_made' = TRUE
                 /\ stamp' = t
                 /\ saved' = << >>
                 /\ i' = 1
                 /\ pc' = "loop"
                 /\ UNCHANGED << stderr, exit_code >>
  /\ UNCHANGED << env_key, verbose, api_key, resp, files, stdout, net, earlier >>

\* The disk after `data` has been put at `path`: a file is replaced whole.
Put(path, data) ==
  { f \in files : f.path # path } \cup { [path |-> path, bytes |-> data] }

\* with open(out_path, "wb") as f: f.write(data), of lines 58-59 and 64-65.
\* `returns` tells whether the statement completes or raises.
open_write(out_path, data, returns) ==
  \E w \in WriteOutcomes :
    /\ world.write[out_path.index] \in { Unknown, w }
    /\ world' = [world EXCEPT !.write[out_path.index] = w]
    /\ returns = (w = "ok")
    /\ files' = IF w = "open_raises" THEN files ELSE Put(out_path, Written(data, w))

\* Lines 62-65.
_write_b64_png(b64, out_path, returns) ==
  LET raw == b64decode(b64) IN
  /\ UNCHANGED net
  /\ IF raw.ok
     THEN open_write(out_path, raw.bytes, returns)
     ELSE returns = FALSE /\ UNCHANGED << files, world >>

\* A faulty variant of _download_file: a download that raises is tried a
\* second time before the exception is let through.
_download_file_retry(url, out_path, returns) ==
  \E got \in FetchOutcomes :
    /\ world.fetch[out_path.index] \in { Unknown, got }
    /\ IF got = "raises"
       THEN /\ returns = FALSE
            /\ net' = net \o << Call("GET", url, out_path.index, got),
                                 Call("GET", url, out_path.index, got) >>
            /\ world' = [world EXCEPT !.fetch[out_path.index] = got]
            /\ UNCHANGED files
       ELSE \E w \in WriteOutcomes :
              /\ world.write[out_path.index] \in { Unknown, w }
              /\ net' = Append(net, Call("GET", url, out_path.index, got))
              /\ world' = [world EXCEPT !.fetch[out_path.index] = got,
                                        !.write[out_path.index] = w]
              /\ returns = (w = "ok")
              /\ files' = IF w = "open_raises" THEN files
                           ELSE Put(out_path, Written(BodyBytes(got), w))

\* Lines 55-59: urlopen(url) and resp.read(), then the write.
_download_file(url, out_path, returns) ==
  \E got \in FetchOutcomes :
    /\ world.fetch[out_path.index] \in { Unknown, got }
    /\ net' = Append(net, Call("GET", url, out_path.index, got))
    /\ IF got = "raises"
       THEN /\ returns = FALSE
            /\ world' = [world EXCEPT !.fetch[out_path.index] = got]
            /\ UNCHANGED files
       ELSE \E w \in WriteOutcomes :
              /\ world.write[out_path.index] \in { Unknown, w }
              /\ world' = [world EXCEPT !.fetch[out_path.index] = got,
                                        !.write[out_path.index] = w]
              /\ returns = (w = "ok")
              /\ files' = IF w = "open_raises" THEN files
                           ELSE Put(out_path, Written(BodyBytes(got), w))

\* A faulty variant of Variant: the "url" key is looked for first.
Variant_url_first(item) ==
  IF "url" \in item.keys THEN "remote"
  ELSE IF "b64_json" \in item.keys THEN "inline"
  ELSE "unrecognized"

\* Lines 143-147: which branch an item (a JSON object) takes.
Variant(item) ==
  IF "b64_json" \in item.keys THEN "inline"
  ELSE IF "url" \in item.keys THEN "remote"
  ELSE "unrecognized"

\* A faulty variant of KeepItem: each path is printed as soon as its file is
\* saved.
KeepItem_print(out_path) ==
  /\ saved' = Append(saved, out_path)
  /\ i' = i + 1
  /\ stdout' = Append(stdout, Line("saved", << >>, out_path))
  /\ UNCHANGED << pc, stderr, exit_code >>

\* Line 151, and on to the next round: nothing is printed yet.
KeepItem(out_path) ==
  /\ saved' = Append(saved, out_path)
  /\ i' = i + 1
  /\ UNCHANGED << pc, stdout, stderr, exit_code >>

\* Lines 139-151: one round of the loop.  `"b64_json" in item` raises for a
\* JSON number, and every other value that is no object raises at one of
\* lines 143-148 before anything is fetched or written.
ProcessItem ==
  /\ pc = "loop"
  /\ i <= Len(resp.data.items)
  /\ LET item == resp.data.items[i]
         out_path == OutPath(stamp, i)
     IN  IF item.kind # "object"
         THEN Raise /\ UNCHANGED << files, net, world, saved, i, stdout >>
         ELSE IF Variant(item) = "unrecognized"
         THEN /\ Return(5, "ERROR: Unexpected image item keys")
              /\ UNCHANGED << files, net, world, saved, i, stdout >>
         ELSE \E returns \in BOOLEAN :
                /\ IF Variant(item) = "inline"
                   THEN _write_b64_png(item.b64_json, out_path, returns)
                   ELSE _download_file(item.url, out_path, returns)
                /\ IF returns
                   THEN KeepItem(out_path)
                   ELSE Raise /\ UNCHANGED << saved, i, stdout >>
  /\ UNCHANGED << env_key, verbose, api_key, resp, stamp, dir_made, earlier >>

\* Lines 153-157.
Report ==
  /\ pc = "loop"
  /\ i > Len(resp.data.items)
  /\ stdout' = stdout \o [n \in 1..Len(saved) |-> Line("saved", << >>, saved[n])]
  /\ exit_code' = 0
  /\ pc' = "exited"
  /\ UNCHANGED << env_key, verbose, api_key, resp, stamp, i, saved, dir_made,
                  files, stderr, net, world, earlier >>

\* Lines 160-161, once more: the same command in the same environment (same
\* variables, same answers of the world, the disk as it was), with --verbose
\* the other way round.  What the first invocation did is kept in `earlier`.
Reinvoke ==
  /\ pc = "exited"
  /\ ~earlier.ran
  /\ earlier' = [ran |-> TRUE, verbose |-> verbose, exit_code |-> exit_code,
                 net |-> net, files |-> files]
  /\ verbose' = ~verbose
  /\ pc' = "credential"
  /\ api_key' = None
  /\ resp' = NoResponse
  /\ stamp' = ""
  /\ i' = 0
  /\ saved' = << >>
  /\ dir_made' = FALSE
  /\ files' = {}
  /\ stdout' = << >>
  /\ stderr' = << >>
  /\ exit_code' = -1
  /\ net' = << >>
  /\ UNCHANGED << env_key, world >>

Next ==
  \/ CheckCredential
  \/ Announce
  \/ Request
  \/ Metadata
  \/ Validate
  \/ Prepare
  \/ ProcessItem
  \/ Report
  \/ Reinvoke

Spec == Init /\ [][Next]_vars

\* ------------------------------------------------- key-masking specification

KeyChars == { "s", "*" }

\* _mask_key over every key of up to MaxKeyLen characters: a --verbose
\* invocation up to the point where the masked key has been printed.
InitMask ==
  /\ env_key \in { Str(k) : k \in SeqsUpTo(KeyChars, MaxKeyLen) }
  /\ verbose = TRUE
  /\ world = NothingDecided
  /\ earlier = NoEarlier
  /\ Fresh

NextMask ==
  \/ CheckCredential
  \/ Announce

SpecMask == InitMask /\ [][NextMask]_vars

\* ------------------------------------------------------------------ claims

\* The batch main() is working on, once the response is a "data" list.
IsBatch == resp.form = "object" /\ resp.data.kind = "list"
Batch == resp.data.items
K == Len(Batch)

HasKey(it, key) == it.kind = "object" /\ key \in it.keys

\* The two variants, b64_json taking priority when both keys are present.
Inline(it) == HasKey(it, "b64_json")
Remote(it) == HasKey(it, "url") /\ ~HasKey(it, "b64_json")

\* {out_dir}/{out_prefix}-{stamp}-{n}.png
Name(t, n) ==
  [dir |-> ".", prefix |-> "generated", stamp |-> t, index |-> n, ext |-> "png"]

\* The download issued for item n, if any.
Fetches(n) == { k \in 1..Len(net) : net[k].method = "GET" /\ net[k].item = n }

\* Nothing the environment decides goes wrong for item n: its payload
\* decodes, its download answers, its file is written.
NoFailureAt(n) ==
  /\ Inline(Batch[n]) => b64decode(Batch[n].b64_json).ok
  /\ Remote(Batch[n]) => world.fetch[n] # "raises"
  /\ world.write[n] \in { "ok", Unknown }

Done == pc = "exited"

\* C1: when "data" is a list of K >= 1 items that are each Inline or Remote
\* and no decode, fetch or write (creating the directory included) fails,
\* main ends with exit code 0 having written exactly K files, named
\* generated-{stamp}-{n}.png with one stamp and n = 1..K in input order; file
\* n holds the base64 decoding of item n's payload when item n is Inline and
\* the bytes its download returned when it is Remote.
C1_ValidBatchSaved ==
  ( /\ Done
    /\ IsBatch
    /\ K >= 1
    /\ world.mkdir # "raises"
    /\ \A n \in 1..K : (Inline(Batch[n]) \/ Remote(Batch[n])) /\ NoFailureAt(n) )
  => /\ exit_code = 0
     /\ Cardinality(files) = K
     /\ \E t \in Stamps : \A n \in 1..K : \E f \in files :
          /\ f.path = Name(t, n)
          /\ Inline(Batch[n]) => f.bytes = b64decode(Batch[n].b64_json).bytes
          /\ Remote(Batch[n]) =>
               \E k \in Fetches(n) : /\ net[k].url = Batch[n].url
                                     /\ f.bytes = BodyBytes(net[k].got)

\* A finished run over a two-item batch, one Inline and one Remote, that
\* saved both.
C1_Witness ==
  /\ Done
  /\ IsBatch
  /\ K = 2
  /\ Inline(Batch[1]) /\ ~HasKey(Batch[1], "url")
  /\ Remote(Batch[2])
  /\ exit_code = 0
  /\ Cardinality(files) = 2

\* OPENAI_API_KEY is unset or empty.
KeyAbsent == ~env_key.set \/ env_key.value = << >>

\* C4: with OPENAI_API_KEY unset or empty, no network call is ever issued
\* and no file or directory is ever created, and main ends with the
\* configuration error: exit code 2 and its one diagnostic line.
C4_NoCredentialNoNetwork ==
  KeyAbsent =>
    /\ net = << >>
    /\ files = {}
    /\ ~dir_made
    /\ pc \in { "credential", "exited" }
    /\ Done => /\ exit_code = 2
               /\ stderr = << "ERROR: OPENAI_API_KEY is not set." >>

\* A run with an empty (set, but "") OPENAI_API_KEY that has ended.
C4_Witness ==
  /\ env_key.set
  /\ env_key.value = << >>
  /\ Done
  /\ exit_code = 2

\* Neither key on a JSON object.
Unrecognized(it) ==
  it.kind = "object" /\ ~("b64_json" \in it.keys) /\ ~("url" \in it.keys)

\* The file of position n of this batch, if it is on disk.
FileOf(n) == { f \in files : f.path = Name(stamp, n) }

\* C2: if item j has neither a "b64_json" nor a "url" key and nothing fails
\* for items 1..j-1 (each is Inline or Remote and is persisted), main returns
\* exit code 5, the files of positions 1..j-1 are on disk, and no file is
\* written and no download issued for position j or a later one.
C2_UnrecognizedItemExit5 ==
  \A j \in 1..K :
    ( /\ Done
      /\ IsBatch
      /\ Unrecognized(Batch[j])
      /\ world.mkdir # "raises"
      /\ \A n \in 1..(j - 1) :
           (Inline(Batch[n]) \/ Remote(Batch[n])) /\ NoFailureAt(n) )
    => /\ exit_code = 5
       /\ \A n \in 1..(j - 1) : FileOf(n) # {}
       /\ \A f \in files : f.path.index < j
       /\ \A k \in 1..Len(net) : net[k].item < j

\* C3: a response without a "data" key, or whose "data" is an empty list or
\* no list, ends main with exit code 4 and no file written, whatever JSON
\* value the response is.
C3_NoDataExit4 ==
  ( /\ Done
    /\ resp.form # "none"
    /\ \/ resp.form # "object"
       \/ resp.data.kind # "list"
       \/ Len(resp.data.items) = 0 )
  => /\ exit_code = 4
     /\ files = {}

\* The diagnostic line of an exit code.
Diagnostic(code) ==
  CASE code = 2 -> "ERROR: OPENAI_API_KEY is not set."
    [] code = 3 -> "ERROR calling Images API"
    [] code = 4 -> "ERROR: No images returned."
    [] code = 5 -> "ERROR: Unexpected image item keys"
    [] OTHER -> ""

\* C5: every invocation ends with exit code 0, 2, 3, 4 or 5; 0 only when the
\* whole batch was saved, and every other code with its category's one
\* diagnostic line on the error stream.
C5_ErrorsHaveCategoryCodes ==
  Done =>
    /\ exit_code \in { 0, 2, 3, 4, 5 }
    /\ exit_code = 0 => stderr = << >> /\ IsBatch /\ Len(saved) = K
    /\ exit_code # 0 => stderr = << Diagnostic(exit_code) >>

\* The saved paths printed so far.
Printed == SelectSeq(stdout, LAMBDA l : l.kind = "saved")

\* C6: paths are printed only by a run that saved every item, one per line
\* in item order, each the path of a file on disk; a run that ends in any
\* failure has printed no path, and a run that ends well has printed them
\* all.
C6_PathsOnlyOnSuccess ==
  /\ Printed # << >> =>
       /\ Done
       /\ exit_code = 0
       /\ IsBatch
       /\ Len(Printed) = K
       /\ \A n \in 1..K : Printed[n].path = Name(stamp, n) /\ FileOf(n) # {}
  /\ (Done /\ exit_code = 0) => IsBatch /\ K >= 1 /\ Len(Printed) = K

\* A run that failed after it had saved a file, and printed no path.
C6_Witness ==
  /\ Done
  /\ exit_code # 0
  /\ FileOf(1) # {}
  /\ Len(saved) >= 1
  /\ Printed = << >>

\* Item n has been taken up by the loop: it was saved, or it is the item the
\* run ended on.
Reached(n) == stamp # "" /\ (n < i \/ (n = i /\ Done))

\* C7: the generation request is the first network call and the only
\* request, and a run that passed the credential check has issued it; every
\* later call is the download of a Remote item, issued when exactly the
\* items before it were saved (the file before it on disk), in increasing
\* item order, so none is issued twice; every Remote item reached has its
\* download.
C7_OneRequestSequentialFetches ==
  /\ \A k \in 1..Len(net) : (net[k].method = "POST") <=> (k = 1)
  /\ (Done /\ ~KeyAbsent) => Len(net) >= 1
  /\ \A k \in 2..Len(net) :
       /\ IsBatch
       /\ net[k].item \in 1..K
       /\ Remote(Batch[net[k].item])
       /\ net[k].url = Batch[net[k].item].url
       /\ net[k].after = net[k].item - 1
       /\ net[k].item > 1 => FileOf(net[k].item - 1) # {}
  /\ \A k, l \in 2..Len(net) : k < l => net[k].item < net[l].item
  /\ IsBatch =>
       \A n \in 1..K :
         (Reached(n) /\ Remote(Batch[n])) => Cardinality(Fetches(n)) = 1

\* A run over two Remote items whose second download failed: three calls.
C7_Witness ==
  /\ Done
  /\ IsBatch
  /\ K = 2
  /\ Remote(Batch[1]) /\ Remote(Batch[2])
  /\ Len(net) = 3
  /\ net[3].got = "raises"
  /\ exit_code = 1

\* C8: the text --verbose prints on the "Using API key" line is never the
\* key itself.
C8_MaskedKeyDiffers ==
  \A k \in 1..Len(stdout) :
    stdout[k].kind = "Using API key" => stdout[k].text # api_key.value

\* C9: an item with both keys is treated as Inline: no download is ever
\* issued for it, and once it is saved its file holds the base64 decoding of
\* its "b64_json" payload.
C9_BothKeysInline ==
  IsBatch =>
    \A n \in 1..K :
      (HasKey(Batch[n], "b64_json") /\ HasKey(Batch[n], "url")) =>
        /\ Fetches(n) = {}
        /\ n <= Len(saved) =>
             \E f \in FileOf(n) : f.bytes = b64decode(Batch[n].b64_json).bytes

\* A run that has saved a first item carrying both keys.
C9_Witness ==
  /\ IsBatch
  /\ K >= 1
  /\ HasKey(Batch[1], "b64_json") /\ HasKey(Batch[1], "url")
  /\ Len(saved) >= 1
  /\ FileOf(1) # {}

\* C10: the same command in the same environment, once with --verbose and
\* once without, ends with the same exit code, the same network calls and
\* the same files.
C10_VerboseOnlyPrints ==
  (earlier.ran /\ Done) =>
    /\ earlier.exit_code = exit_code
    /\ earlier.net = net
    /\ earlier.files = files

====
